---- MODULE Spec2Model ----
(***************************************************************************)
(* The per-frame tracking / annotation / logging pipeline of whalewatch:   *)
(* the streaming session (app.py, generate_tracked_stream) and the batch   *)
(* session (beluga_track_server.py, main), with the smoother they share.   *)
(*                                                                         *)
(* One session is modelled.  Its frame loop advances one iteration per     *)
(* step; the detector/tracker, the frame source, the encoders and the log  *)
(* destination are collaborators whose answers (detections, end of stream, *)
(* failures) are inputs drawn from small sets.                             *)
(***************************************************************************)
EXTENDS Integers, Sequences, FiniteSets, TLC

(***************************************************************************)
(* Bounds of the model.                                                    *)
(***************************************************************************)
\* frames of a short video
MaxFrames == 3
\* detections the detector stub reports over one video
MaxDets == 2
\* frames of one session whose JPEG encoding fails
MaxEncodeFailures == 1
\* frames of the long video, which crosses two periodic checkpoints
LongFrames == 201
\* in the long video things happen (the stub reports objects, the encoder
\* refuses a frame, a call raises, the video ends, the caller gives up) only
\* on frames at most this far from a periodic checkpoint
Window == 1
\* frames of the steady video, whose single object stands still from frame 2
SteadyFrames == 10
\* largest coordinate of that object
SteadyMax == 12

\* the service: uploads accepted, frames of an upload
MaxUploads == 2
ServiceFrames == 2

(***************************************************************************)
(* Python floats: IEEE-754 binary64, round to nearest, ties to even.       *)
(* A float is [neg, m, e] with value (-1)^neg * m * 2^e, where m is a      *)
(* natural number of at most MANT_DIG significant bits, held as a sequence *)
(* of limbs (least significant first) because it exceeds the integers of   *)
(* the model checker.  Only what smooth() needs is defined: literals,      *)
(* int -> float, float * int, float +/- float and int(float).              *)
(***************************************************************************)
MANT_DIG == 53
LimbBits == 20
Radix == 2^LimbBits

Limb(a, i) == IF i >= 1 /\ i <= Len(a) THEN a[i] ELSE 0

RECURSIVE Norm(_)
Norm(a) == IF a = <<>> \/ a[Len(a)] # 0 THEN a ELSE Norm(SubSeq(a, 1, Len(a) - 1))

RECURSIVE AddBig(_, _, _)
AddBig(a, b, c) ==
    IF a = <<>> /\ b = <<>> THEN (IF c = 0 THEN <<>> ELSE <<c>>)
    ELSE LET s == Limb(a, 1) + Limb(b, 1) + c
         IN  <<s % Radix>> \o AddBig(SubSeq(a, 2, Len(a)), SubSeq(b, 2, Len(b)), s \div Radix)

RECURSIVE SubRaw(_, _, _)
SubRaw(a, b, c) ==
    IF a = <<>> THEN <<>>
    ELSE LET s == a[1] - Limb(b, 1) - c
         IN  <<s % Radix>> \o SubRaw(Tail(a), SubSeq(b, 2, Len(b)), IF s < 0 THEN 1 ELSE 0)

\* a - b for a >= b
SubBig(a, b) == Norm(SubRaw(a, b, 0))

RECURSIVE LessBig(_, _)
LessBig(a, b) ==
    IF Len(a) # Len(b) THEN Len(a) < Len(b)
    ELSE IF a = <<>> THEN FALSE
    ELSE IF a[Len(a)] # b[Len(b)] THEN a[Len(a)] < b[Len(b)]
    ELSE LessBig(Norm(SubSeq(a, 1, Len(a) - 1)), Norm(SubSeq(b, 1, Len(b) - 1)))

\* a * n + c for a small natural n
RECURSIVE MulSmall(_, _, _)
MulSmall(a, n, c) ==
    IF a = <<>> THEN (IF c = 0 THEN <<>> ELSE <<c>>)
    ELSE LET s == a[1] * n + c
         IN  <<s % Radix>> \o MulSmall(Tail(a), n, s \div Radix)

\* a * 2^k
ShiftL(a, k) ==
    LET q == k \div LimbBits
        s == k % LimbBits
        w == 2^(LimbBits - s)
    IN  IF a = <<>> THEN a
        ELSE [i \in 1..q |-> 0] \o
             Norm([i \in 1..(Len(a) + 1) |->
                      (Limb(a, i) % w) * 2^s + (Limb(a, i - 1) \div w)])

\* floor(a / 2^k)
ShiftR(a, k) ==
    LET q == k \div LimbBits
        s == k % LimbBits
    IN  Norm([i \in 1..(Len(a) - q) |->
                 (Limb(a, i + q) \div 2^s) + (Limb(a, i + q + 1) % 2^s) * 2^(LimbBits - s)])

\* some of the k low bits of a is set
LowBits(a, k) == a # ShiftL(ShiftR(a, k), k)

BitLen(a) ==
    IF a = <<>> THEN 0
    ELSE (Len(a) - 1) * LimbBits
         + (CHOOSE w \in 1..LimbBits : 2^(w - 1) <= a[Len(a)] /\ a[Len(a)] < 2^w)

Odd(a) == Limb(a, 1) % 2 = 1

\* the float nearest to (-1)^neg * m * 2^e, ties to even
RoundF(neg, m, e) ==
    IF BitLen(m) <= MANT_DIG THEN [neg |-> neg, m |-> m, e |-> e]
    ELSE LET r      == BitLen(m) - MANT_DIG
             kept   == ShiftR(m, r)
             guard  == Odd(ShiftR(m, r - 1))
             sticky == LowBits(m, r - 1)
             up     == guard /\ (sticky \/ Odd(kept))
         IN  [neg |-> neg, m |-> IF up THEN AddBig(kept, <<1>>, 0) ELSE kept, e |-> e + r]

\* float(n)
FromInt(n) == [neg |-> n < 0, m |-> Norm(<<IF n < 0 THEN -n ELSE n>>), e |-> 0]

\* a * n: the int operand converts exactly, the product is rounded once
FMulInt(a, n) ==
    RoundF(a.neg # (n < 0), Norm(MulSmall(a.m, IF n < 0 THEN -n ELSE n, 0)), a.e)

FAdd(a, b) ==
    LET e  == IF a.e < b.e THEN a.e ELSE b.e
        am == ShiftL(a.m, a.e - e)
        bm == ShiftL(b.m, b.e - e)
    IN  IF a.neg = b.neg THEN RoundF(a.neg, AddBig(am, bm, 0), e)
        ELSE IF LessBig(am, bm) THEN RoundF(b.neg, SubBig(bm, am), e)
        ELSE RoundF(a.neg /\ am # bm, SubBig(am, bm), e)

FNeg(a) == [a EXCEPT !.neg = ~a.neg /\ a.m # <<>>]

FSub(a, b) == FAdd(a, FNeg(b))

\* a \div d and a % d for a small d, most significant limb first
RECURSIVE DivSmall(_, _, _)
DivSmall(a, d, rem) ==
    IF a = <<>> THEN [q |-> <<>>, r |-> rem]
    ELSE LET cur  == rem * Radix + a[Len(a)]
             rest == DivSmall(SubSeq(a, 1, Len(a) - 1), d, cur % d)
         IN  [q |-> rest.q \o <<cur \div d>>, r |-> rest.r]

\* the float a decimal literal num/den denotes: the quotient to 3 limbs
\* below the point, a sticky bit for the remainder, rounded once
FLiteral(num, den) ==
    LET s  == 3 * LimbBits
        dv == DivSmall(ShiftL(<<num>>, s), den, 0)
        qs == AddBig(ShiftL(Norm(dv.q), 1), <<IF dv.r = 0 THEN 0 ELSE 1>>, 0)
    IN  RoundF(FALSE, qs, -s - 1)

RECURSIVE BigNat(_)
BigNat(a) == IF a = <<>> THEN 0 ELSE a[1] + Radix * BigNat(Tail(a))

\* int(a): truncation toward zero
IntF(a) ==
    LET mag == BigNat(IF a.e >= 0 THEN ShiftL(a.m, a.e) ELSE ShiftR(a.m, -a.e))
    IN  IF a.neg THEN -mag ELSE mag

(***************************************************************************)
(* Configuration of the program.                                           *)
(***************************************************************************)
CLASS_NAMES == <<"Adult", "Calf">>
\* SMOOTHING_ALPHA = 0.30
SMOOTHING_ALPHA == FLiteral(30, 100)
CSV_EVERY_N_FRAMES == 100
ADULT_GREEN == <<147, 205, 108>>
CALF_BLUE == <<180, 163, 117>>
\* cap.get(cv2.CAP_PROP_FPS) or 30.0
DEFAULT_FPS == 30

(***************************************************************************)
(* The inputs: what the detector/tracker and the frame source may answer.  *)
(* A tensor field that may be None is a sequence, empty for None, so that  *)
(* box.id[0] is id[1].  Confidence is in hundredths.                       *)
(***************************************************************************)
AdultBox == [cls |-> <<0>>, id |-> <<1>>, xyxy |-> <<10, 10, 50, 50>>, conf |-> <<90>>]
CalfBox == [cls |-> <<1>>, id |-> <<1>>, xyxy |-> <<-12, 3, 6, 48>>, conf |-> <<>>]
OtherBox == [cls |-> <<2>>, id |-> <<2>>, xyxy |-> <<-3, -6, 12, 23>>, conf |-> <<55>>]
UntrackedBox == [cls |-> <<>>, id |-> <<>>, xyxy |-> <<10, 10, 50, 50>>, conf |-> <<40>>]

Detections == {AdultBox, CalfBox, OtherBox, UntrackedBox}
\* the object of the steady video: an adult, track 1, all coordinates c
SteadyBox(c) == [cls |-> <<0>>, id |-> <<1>>, xyxy |-> <<c, c, c, c>>, conf |-> <<90>>]
SteadyDetections == {SteadyBox(c) : c \in 0..SteadyMax}
LongDetections == {AdultBox}

\* cap.get(cv2.CAP_PROP_FPS): 0 when the container does not say
RawFps == {0, 25}

\* rows a log destination may hold from an earlier run on the same path
StaleRow == [Frame |-> 7, Time |-> <<7, 25>>, Track_ID |-> 9, Class |-> "Adult",
             X1 |-> 1, Y1 |-> 2, X2 |-> 3, Y2 |-> 4, Behavior |-> "surfacing", Conf |-> 10]

SeqsUpTo(S, n) == UNION {[1..k -> S] : k \in 0..n}

Range(f) == {f[i] : i \in DOMAIN f}


(***************************************************************************)
(* Helpers of both entry points.                                           *)
(***************************************************************************)
\* int(alpha * new + (1 - alpha) * old)
smooth(old, new) ==
    IntF(FAdd(FMulInt(SMOOTHING_ALPHA, new),
              FMulInt(FSub(FromInt(1), SMOOTHING_ALPHA), old)))

\* the coordinates the stub reports, and the interval the smoothed ones stay in
RawCoords == UNION {Range(d.xyxy) : d \in Detections \cup SteadyDetections}
Coords ==
    LET lo == CHOOSE c \in RawCoords : \A d \in RawCoords : c <= d
        hi == CHOOSE c \in RawCoords : \A d \in RawCoords : d <= c
    IN  (lo - 1)..(hi + 1)

\* smooth() tabulated once over the coordinates of the model
smoothed == [old \in Coords |-> [new \in RawCoords |-> smooth(old, new)]]

\* CLASS_NAMES[class_id] if 0 <= class_id < len(CLASS_NAMES) else str(class_id)
safe_class_name(class_id) ==
    IF 0 <= class_id /\ class_id < Len(CLASS_NAMES) THEN CLASS_NAMES[class_id + 1]
    ELSE ToString(class_id)

\* int(box.id[0]) if box.id is not None else -1
TrackId(box) == IF box.id # <<>> THEN box.id[1] ELSE -1

\* int(box.cls[0]) if box.cls is not None else 0
ClassId(box) == IF box.cls # <<>> THEN box.cls[1] ELSE 0

\* the box after "if track_id in smoothing_buffer: ... smooth(px1, x1) ..."
SmoothBox(smoothing_buffer, box) ==
    IF TrackId(box) \in DOMAIN smoothing_buffer
    THEN [i \in 1..4 |-> smoothed[smoothing_buffer[TrackId(box)][i]][box.xyxy[i]]]
    ELSE box.xyxy

\* smoothing_buffer.setdefault(track_id, [x1, y1, x2, y2])
UpdateBufferFirstWins(smoothing_buffer, track_id, xyxy) ==
    smoothing_buffer @@ (track_id :> xyxy)

\* smoothing_buffer[track_id] = [x1, y1, x2, y2]
UpdateBuffer(smoothing_buffer, track_id, xyxy) == (track_id :> xyxy) @@ smoothing_buffer

\* the loop body with the frame counted after it is processed
AnnotateCountingFromZero(st, box, idx, t_sec, xyxy, whale_class) ==
    [smoothing_buffer |-> UpdateBuffer(st.smoothing_buffer, TrackId(box), xyxy),
     overlays |-> Append(st.overlays,
         [box |-> xyxy,
          label_text |-> whale_class \o " ID:" \o ToString(TrackId(box)),
          box_color |-> IF whale_class = "Calf" THEN CALF_BLUE ELSE ADULT_GREEN]),
     tracking_rows |-> Append(st.tracking_rows,
         [Frame |-> idx - 1, Time |-> t_sec, Track_ID |-> TrackId(box),
          Class |-> whale_class, X1 |-> xyxy[1], Y1 |-> xyxy[2],
          X2 |-> xyxy[3], Y2 |-> xyxy[4],
          Behavior |-> IF whale_class = "Adult" THEN "surfacing" ELSE "nursing",
          Conf |-> IF box.conf # <<>> THEN box.conf[1] ELSE 0])]

\* the rest of the loop body for a box with a track id, smoothed to xyxy:
\* st is the loop's state, [smoothing_buffer, tracking_rows, overlays (those
\* drawn on the current frame)]
Annotate(st, box, idx, t_sec, xyxy, whale_class) ==
    [smoothing_buffer |-> UpdateBuffer(st.smoothing_buffer, TrackId(box), xyxy),
     overlays |-> Append(st.overlays,
         [box |-> xyxy,
          label_text |-> whale_class \o " ID:" \o ToString(TrackId(box)),
          box_color |-> IF whale_class = "Calf" THEN CALF_BLUE ELSE ADULT_GREEN]),
     tracking_rows |-> Append(st.tracking_rows,
         [Frame |-> idx, Time |-> t_sec, Track_ID |-> TrackId(box),
          Class |-> whale_class, X1 |-> xyxy[1], Y1 |-> xyxy[2],
          X2 |-> xyxy[3], Y2 |-> xyxy[4],
          Behavior |-> IF whale_class = "Adult" THEN "surfacing" ELSE "nursing",
          Conf |-> IF box.conf # <<>> THEN box.conf[1] ELSE 0])]

\* the body without "if track_id == -1: continue"
ProcessBoxWithoutSkip(st, box, idx, t_sec) ==
    Annotate(st, box, idx, t_sec, SmoothBox(st.smoothing_buffer, box),
             safe_class_name(ClassId(box)))

\* the body of "for box in r.boxes" for one box
ProcessBox(st, box, idx, t_sec) ==
    IF TrackId(box) = -1 THEN st
    ELSE Annotate(st, box, idx, t_sec, SmoothBox(st.smoothing_buffer, box),
                  safe_class_name(ClassId(box)))

RECURSIVE ProcessBoxes(_, _, _, _)
ProcessBoxes(st, boxes, idx, t_sec) ==
    IF boxes = <<>> THEN st
    ELSE ProcessBoxes(ProcessBox(st, Head(boxes), idx, t_sec), Tail(boxes), idx, t_sec)

(***************************************************************************)
(* The state of one session.                                               *)
(***************************************************************************)
VARIABLES
    mode,              \* "stream": generate_tracked_stream; "batch": main
    video,             \* "short" or "long": which inputs the stubs draw from
    pc,                \* "Opening", "Running", "Suspended" (at the yield), "Ended"
    outcome,           \* what the caller gets once the session has ended
    fault,             \* the failure that ended the frame loop, "none" if none did
    fps,
    frame_idx,
    smoothing_buffer,  \* dict: track id -> [x1, y1, x2, y2]
    tracking_rows,
    csv,               \* the rows the log destination holds
    csv_before,        \* the rows it held before the session
    requests,          \* the consumer's calls of next() on the generator
    chunks,            \* the frames yielded to the consumer, in order
    written,           \* the frames given to the video writer, in order
    events,            \* opens, releases and final log writes, in order
    drawn,             \* calls of draw_box_with_label that returned
    detector_calls,    \* calls of model.track
    seen,              \* the id-bearing detections reported: frame, id, class, raw box
    enc_failed,        \* the frames cv2.imencode has refused
    det_budget,        \* detections the stub may still report
    STREAMS,           \* the registry: stream id -> csv_path
    sessions,          \* client -> the generator stream() made for it, with its locals
    files              \* the log destinations of the service: csv_path -> rows

vars == <<mode, video, pc, outcome, fault, fps, frame_idx, smoothing_buffer,
          tracking_rows, csv, csv_before, requests, chunks, written, events,
          drawn, detector_calls, seen, enc_failed, det_budget,
          STREAMS, sessions, files>>

\* what no step of a session changes
setup == <<mode, video, csv_before, STREAMS, sessions, files>>

session == <<frame_idx, smoothing_buffer, tracking_rows, drawn, detector_calls,
             seen, det_budget>>

InitSession ==
    /\ mode \in {"stream", "batch"}
    /\ pc = "Opening"
    /\ outcome = "none"
    /\ fault = "none"
    /\ fps = 0
    /\ frame_idx = 0
    /\ smoothing_buffer = <<>>
    /\ tracking_rows = <<>>
    /\ csv \in {<<>>, <<StaleRow>>}
    /\ csv_before = csv
    /\ requests = 0
    /\ chunks = <<>>
    /\ written = <<>>
    /\ events = <<>>
    /\ drawn = 0
    /\ detector_calls = 0
    /\ seen = <<>>
    /\ enc_failed = {}
    /\ det_budget = IF video = "steady" THEN SteadyFrames ELSE MaxDets
    /\ STREAMS = <<>>
    /\ sessions = <<>>
    /\ files = <<>>

Init == video = "short" /\ InitSession

InitLong == video = "long" /\ InitSession

InitSteady == video = "steady" /\ InitSession

(***************************************************************************)
(* The stubs.                                                              *)
(***************************************************************************)
FrameLimit ==
    IF video = "long" THEN LongFrames
    ELSE IF video = "steady" THEN SteadyFrames ELSE MaxFrames

NearCheckpoint(idx) ==
    /\ idx >= CSV_EVERY_N_FRAMES - Window
    /\ \/ idx % CSV_EVERY_N_FRAMES <= Window
       \/ idx % CSV_EVERY_N_FRAMES >= CSV_EVERY_N_FRAMES - Window

\* a frame on which the stubs may answer anything, and at which the video may
\* end, a call may raise and the caller may give up: every frame of the
\* short video, the frames around a checkpoint of the long one, the first
\* frame of the steady one
Eventful(idx) ==
    \/ video = "short"
    \/ video = "long" /\ NearCheckpoint(idx)
    \/ video = "steady" /\ idx <= 1

\* model.track(frame, persist=True, tracker=TRACKER_PATH): the boxes reported
Track(idx) ==
    IF video = "steady"
    THEN IF idx <= 2 \/ seen = <<>> THEN {<<b>> : b \in SteadyDetections}
         ELSE {<<SteadyBox(seen[Len(seen)].xyxy[1])>>}
    ELSE IF Eventful(idx)
    THEN SeqsUpTo(IF video = "long" THEN LongDetections ELSE Detections, det_budget)
    ELSE {<<>>}

\* cap.get(cv2.CAP_PROP_FPS) or 30.0
Fps == {IF raw = 0 THEN DEFAULT_FPS ELSE raw : raw \in IF video = "long" THEN {0} ELSE RawFps}

Tracked(boxes, idx) ==
    LET tracked == SelectSeq(boxes, LAMBDA b : b.id # <<>>)
    IN  [i \in 1..Len(tracked) |->
            [frame |-> idx, id |-> tracked[i].id[1], cls |-> ClassId(tracked[i]),
             xyxy |-> tracked[i].xyxy]]

\* the loop's state after "for box in r.boxes" over the boxes of frame idx
AfterBoxes(boxes, idx) ==
    ProcessBoxes([smoothing_buffer |-> smoothing_buffer, tracking_rows |-> tracking_rows,
                  overlays |-> <<>>], boxes, idx, <<idx, fps>>)

\* the condition with the frames counted from 0
PeriodicDueCountingFromZero(idx, rows) ==
    (idx - 1) % CSV_EVERY_N_FRAMES = 0 /\ rows # <<>>

\* frame_idx % CSV_EVERY_N_FRAMES == 0 and tracking_rows
PeriodicDue(idx, rows) == idx % CSV_EVERY_N_FRAMES = 0 /\ rows # <<>>

\* what a destination may hold after DataFrame(rows).to_csv(path) has raised:
\* its old content (the open failed) or a part of the new one
FailedWrite(rows, old) == {old} \cup {SubSeq(rows, 1, k) : k \in 0..(Len(rows) - 1)}

\* the final write with the destination opened for appending
FinalCsvAppending(rows, old) ==
    IF rows = <<>> THEN {[csv |-> old, ev |-> <<>>, ok |-> TRUE]}
    ELSE {[csv |-> old \o rows, ev |-> <<"to_csv">>, ok |-> TRUE]}
         \cup {[csv |-> c, ev |-> <<"to_csv.failed">>, ok |-> FALSE] : c \in FailedWrite(rows, old)}

\* "if tracking_rows: DataFrame(...).to_csv(...)" at the end of a session:
\* the content of the destination, the event, and whether it returned
FinalCsv(rows, old) ==
    IF rows = <<>> THEN {[csv |-> old, ev |-> <<>>, ok |-> TRUE]}
    ELSE {[csv |-> rows, ev |-> <<"to_csv">>, ok |-> TRUE]}
         \cup {[csv |-> c, ev |-> <<"to_csv.failed">>, ok |-> FALSE] : c \in FailedWrite(rows, old)}

(***************************************************************************)
(* What both frame loops do in an iteration.                               *)
(***************************************************************************)
\* the loop variables after the boxes of frame idx: st is AfterBoxes
Advance(idx, boxes, reported, st) ==
    /\ frame_idx' = idx
    /\ detector_calls' = detector_calls + 1
    /\ det_budget' = det_budget - Len(boxes)
    /\ seen' = seen \o Tracked(reported, idx)
    /\ smoothing_buffer' = st.smoothing_buffer
    /\ tracking_rows' = st.tracking_rows
    /\ drawn' = drawn + Len(st.overlays)

\* draw_box_with_label raises for the k-th box, after the buffer's update
\* and before the row is appended: st is AfterBoxes of the boxes before it
RaiseInAnnotate(idx, boxes, k, st) ==
    /\ boxes[k].id # <<>>
    /\ fault' = "annotate"
    /\ Advance(idx, boxes, SubSeq(boxes, 1, k),
               [st EXCEPT !.smoothing_buffer =
                   UpdateBuffer(@, TrackId(boxes[k]), SmoothBox(@, boxes[k]))])

(***************************************************************************)
(* Streaming: generate_tracked_stream, a generator driven by its consumer. *)
(***************************************************************************)
\* the finally block: cap.release(), then the final CSV write; the generator
\* ends as it was going to (returned, raised, closed) unless that write raises
Finally(rows, old, ending) ==
    \E f \in FinalCsv(rows, old) :
        /\ csv' = f.csv
        /\ events' = events \o <<"cap.release">> \o f.ev
        /\ outcome' = IF f.ok THEN ending ELSE "raised"
        /\ pc' = "Ended"

\* the consumer's first next(): cv2.VideoCapture(video_path) up to the loop
StreamStart ==
    /\ mode = "stream" /\ pc = "Opening"
    /\ \E opened \in BOOLEAN, f \in Fps :
        IF opened
        THEN /\ fps' = f
             /\ pc' = "Running"
             /\ events' = events \o <<"cap.open">>
             /\ UNCHANGED <<outcome, fault>>
        ELSE /\ pc' = "Ended"
             /\ outcome' = "returned"
             /\ fault' = "open"
             /\ UNCHANGED <<fps, events>>
    /\ requests' = requests + 1
    /\ UNCHANGED <<setup, session, csv, chunks, written, enc_failed>>

\* the iteration without "if not ret: continue"
StreamIterationWithoutRetCheck(idx, boxes, ret, st) ==
    /\ Advance(idx, boxes, boxes, st)
    /\ csv' = IF PeriodicDue(idx, st.tracking_rows) THEN st.tracking_rows ELSE csv
    /\ chunks' = Append(chunks, [frame |-> idx, overlays |-> st.overlays])
    /\ pc' = "Suspended"
    /\ enc_failed' = IF ret THEN enc_failed ELSE enc_failed \cup {idx}

\* the iteration from the periodic CSV write on; ret is imencode's answer
StreamIteration(idx, boxes, ret, st) ==
    /\ Advance(idx, boxes, boxes, st)
    /\ csv' = IF PeriodicDue(idx, st.tracking_rows) THEN st.tracking_rows ELSE csv
    /\ IF ret
       THEN /\ chunks' = Append(chunks, [frame |-> idx, overlays |-> st.overlays])
            /\ pc' = "Suspended"
            /\ UNCHANGED enc_failed
       ELSE /\ enc_failed' = enc_failed \cup {idx}
            /\ UNCHANGED <<chunks, pc>>

\* one iteration of the loop that reaches its end: the frame is yielded, or
\* imencode refuses it and the loop goes on with the next frame
StreamFrame ==
    /\ mode = "stream" /\ pc = "Running" /\ frame_idx < FrameLimit
    /\ \E boxes \in Track(frame_idx + 1), ret \in BOOLEAN :
        /\ ret \/ (Eventful(frame_idx + 1) /\ Cardinality(enc_failed) < MaxEncodeFailures)
        /\ StreamIteration(frame_idx + 1, boxes, ret, AfterBoxes(boxes, frame_idx + 1))
    /\ UNCHANGED <<setup, requests, outcome, fault, fps, written, events>>

\* the periodic to_csv raises; the finally block writes again
StreamRaiseInCsv(idx, boxes, st) ==
    /\ PeriodicDue(idx, st.tracking_rows)
    /\ fault' = "to_csv"
    /\ Advance(idx, boxes, boxes, st)
    /\ \E c \in FailedWrite(st.tracking_rows, csv) : Finally(st.tracking_rows, c, "raised")

\* an iteration that raises: in cap.read, in model.track, in
\* draw_box_with_label for the k-th box, or in the periodic to_csv
StreamRaise ==
    /\ mode = "stream" /\ pc = "Running" /\ frame_idx < FrameLimit
    /\ Eventful(frame_idx + 1)
    /\ \/ /\ fault' = "read"
          /\ Finally(tracking_rows, csv, "raised")
          /\ UNCHANGED session
       \/ /\ fault' = "track"
          /\ frame_idx' = frame_idx + 1
          /\ detector_calls' = detector_calls + 1
          /\ Finally(tracking_rows, csv, "raised")
          /\ UNCHANGED <<smoothing_buffer, tracking_rows, drawn, seen, det_budget>>
       \/ \E boxes \in Track(frame_idx + 1) : \E k \in 1..Len(boxes) :
          /\ RaiseInAnnotate(frame_idx + 1, boxes, k,
                             AfterBoxes(SubSeq(boxes, 1, k - 1), frame_idx + 1))
          /\ Finally(tracking_rows', csv, "raised")
       \/ \E boxes \in Track(frame_idx + 1) :
          StreamRaiseInCsv(frame_idx + 1, boxes, AfterBoxes(boxes, frame_idx + 1))
    /\ UNCHANGED <<setup, requests, fps, chunks, written, enc_failed>>

\* cap.read() answers not ok: the loop breaks and the generator returns
StreamEnd ==
    /\ mode = "stream" /\ pc = "Running"
    /\ Eventful(frame_idx + 1) \/ frame_idx = FrameLimit
    /\ Finally(tracking_rows, csv, "returned")
    /\ UNCHANGED <<setup, requests, fault, fps, session, chunks, written, enc_failed>>

\* a generator that runs on without being asked
StreamResumeUnrequested ==
    /\ mode = "stream" /\ pc = "Suspended"
    /\ pc' = "Running"
    /\ UNCHANGED <<setup, requests, outcome, fault, fps, session, csv, chunks, written,
                   events, enc_failed>>

\* the consumer's next() on the suspended generator
StreamResume ==
    /\ mode = "stream" /\ pc = "Suspended"
    /\ pc' = "Running"
    /\ requests' = requests + 1
    /\ UNCHANGED <<setup, outcome, fault, fps, session, csv, chunks, written,
                   events, enc_failed>>

\* the consumer's close(): GeneratorExit at the yield runs the finally block;
\* a generator that was never started just ends
StreamClose ==
    /\ mode = "stream"
    /\ \/ /\ pc = "Suspended" /\ Eventful(frame_idx)
          /\ Finally(tracking_rows, csv, "closed")
       \/ /\ pc = "Opening"
          /\ pc' = "Ended"
          /\ outcome' = "closed"
          /\ UNCHANGED <<csv, events>>
    /\ fault' = "cancel"
    /\ UNCHANGED <<setup, requests, fps, session, chunks, written, enc_failed>>

(***************************************************************************)
(* Batch: main of beluga_track_server.py, run to completion.               *)
(***************************************************************************)
\* the handler "except Exception": both releases, then sys.exit(1)
Handler(before) ==
    /\ events' = events \o before \o <<"cap.release", "writer.release">>
    /\ outcome' = "exit1"
    /\ pc' = "Ended"

\* cv2.VideoCapture(input_video) and cv2.VideoWriter(output_video, ...)
BatchOpen ==
    /\ mode = "batch" /\ pc = "Opening"
    /\ \/ /\ fault' = "open"
          /\ outcome' = "exit1"
          /\ pc' = "Ended"
          /\ UNCHANGED <<fps, events>>
       \/ /\ fault' = "writer_open"
          /\ outcome' = "exit1"
          /\ pc' = "Ended"
          /\ fps' \in Fps
          /\ events' = events \o <<"cap.open", "cap.release">>
       \/ /\ fps' \in Fps
          /\ pc' = "Running"
          /\ events' = events \o <<"cap.open", "writer.open">>
          /\ UNCHANGED <<outcome, fault>>
    /\ UNCHANGED <<setup, requests, session, csv, chunks, written, enc_failed>>

\* the iteration from writer.write(frame) on
BatchIteration(idx, boxes, st) ==
    /\ Advance(idx, boxes, boxes, st)
    /\ written' = Append(written, [frame |-> idx, overlays |-> st.overlays])
    /\ csv' = IF PeriodicDue(idx, st.tracking_rows) THEN st.tracking_rows ELSE csv

\* one iteration of the loop that reaches its end
BatchFrame ==
    /\ mode = "batch" /\ pc = "Running" /\ frame_idx < FrameLimit
    /\ \E boxes \in Track(frame_idx + 1) :
        BatchIteration(frame_idx + 1, boxes, AfterBoxes(boxes, frame_idx + 1))
    /\ UNCHANGED <<setup, requests, pc, outcome, fault, fps, chunks, events, enc_failed>>

\* writer.write(frame) raises, or the periodic to_csv after it does
BatchRaiseLate(idx, boxes, point, st) ==
    /\ fault' = point
    /\ Advance(idx, boxes, boxes, st)
    /\ IF point = "write"
       THEN UNCHANGED <<csv, written>>
       ELSE /\ PeriodicDue(idx, st.tracking_rows)
            /\ written' = Append(written, [frame |-> idx, overlays |-> st.overlays])
            /\ csv' \in FailedWrite(st.tracking_rows, csv)

\* an iteration that raises an Exception: in cap.read, in model.track, in
\* draw_box_with_label for the k-th box, in writer.write or in the periodic
\* to_csv
BatchRaise ==
    /\ mode = "batch" /\ pc = "Running" /\ frame_idx < FrameLimit
    /\ Eventful(frame_idx + 1)
    /\ Handler(<<>>)
    /\ \/ /\ fault' = "read"
          /\ UNCHANGED <<session, csv, written>>
       \/ /\ fault' = "track"
          /\ frame_idx' = frame_idx + 1
          /\ detector_calls' = detector_calls + 1
          /\ UNCHANGED <<smoothing_buffer, tracking_rows, drawn, seen, det_budget,
                         csv, written>>
       \/ \E boxes \in Track(frame_idx + 1) : \E k \in 1..Len(boxes) :
          /\ RaiseInAnnotate(frame_idx + 1, boxes, k,
                             AfterBoxes(SubSeq(boxes, 1, k - 1), frame_idx + 1))
          /\ UNCHANGED <<csv, written>>
       \/ \E boxes \in Track(frame_idx + 1), point \in {"write", "to_csv"} :
          BatchRaiseLate(frame_idx + 1, boxes, point, AfterBoxes(boxes, frame_idx + 1))
    /\ UNCHANGED <<setup, requests, fps, chunks, enc_failed>>

\* cap.read() answers not ok: the final CSV write inside the try, then the
\* releases and sys.exit(0); a final write that raises goes to the handler
BatchEnd ==
    /\ mode = "batch" /\ pc = "Running"
    /\ Eventful(frame_idx + 1) \/ frame_idx = FrameLimit
    /\ \E f \in FinalCsv(tracking_rows, csv) :
        /\ csv' = f.csv
        /\ IF f.ok
           THEN /\ events' = events \o f.ev \o <<"cap.release", "writer.release">>
                /\ outcome' = "exit0"
                /\ pc' = "Ended"
           ELSE Handler(f.ev)
    /\ UNCHANGED <<setup, requests, fault, fps, session, chunks, written, enc_failed>>

\* the caller's abort: KeyboardInterrupt is no Exception, so neither the
\* handler nor anything after the try runs
BatchInterrupt ==
    /\ mode = "batch" /\ pc = "Running" /\ Eventful(frame_idx + 1)
    /\ pc' = "Ended"
    /\ outcome' = "interrupted"
    /\ fault' = "cancel"
    /\ UNCHANGED <<setup, requests, fps, session, csv, chunks, written, events, enc_failed>>

(***************************************************************************)
(* The specifications: a short video with every input, a long video that   *)
(* crosses the periodic checkpoints, and a steady video whose one object   *)
(* stands still from its second frame on.                                  *)
(***************************************************************************)
Next ==
    \/ StreamStart \/ StreamFrame \/ StreamRaise \/ StreamEnd
    \/ StreamResume \/ StreamClose
    \/ BatchOpen \/ BatchFrame \/ BatchRaise \/ BatchEnd \/ BatchInterrupt

Spec == Init /\ [][Next]_vars

LongSpec == InitLong /\ [][Next]_vars

SteadySpec == InitSteady /\ [][Next]_vars

(***************************************************************************)
(* The service: track() registers an upload, stream() creates a generator  *)
(* for a registered id, and the generators run interleaved, each on the    *)
(* locals of its own call of generate_tracked_stream.                      *)
(***************************************************************************)
\* datetime.datetime.now().strftime("%Y%m%d_%H%M%S"): the uploads arrive
\* within one second
Stamps == {"20260101_120000"}

\* os.path.join(OUTPUT_FOLDER, f"tracking_{ts}_{stream_id}.csv")
CsvPath(ts, stream_id) == <<"tracking", ts, stream_id>>

\* model.track(...) of the one global model, whatever session calls it
ServiceTrack == {<<>>, <<AdultBox>>, <<CalfBox>>}

\* the clients of the service, each asking for one stream
Clients == {"c1", "c2"}

\* a client stream() has made no generator for
NoGenerator ==
    [stream_id |-> 0, csv_path |-> <<>>, pc |-> "None", fps |-> 0, frame_idx |-> 0,
     smoothing_buffer |-> <<>>, tracking_rows |-> <<>>, answers |-> <<>>]

\* the content of a log destination, nothing if it does not exist
Held(path) == IF path \in DOMAIN files THEN files[path] ELSE <<>>

\* the state held outside a generator: the main loop's variables at rest
Idle ==
    /\ mode = "service"
    /\ video = "short"
    /\ pc = "Ended"
    /\ outcome = "none"
    /\ fault = "none"
    /\ fps = 0
    /\ frame_idx = 0
    /\ smoothing_buffer = <<>>
    /\ tracking_rows = <<>>
    /\ csv = <<>>
    /\ csv_before = <<>>
    /\ requests = 0
    /\ chunks = <<>>
    /\ written = <<>>
    /\ events = <<>>
    /\ drawn = 0
    /\ detector_calls = 0
    /\ seen = <<>>
    /\ enc_failed = {}
    /\ det_budget = 0

ServiceInit ==
    /\ Idle
    /\ STREAMS = <<>>
    /\ sessions = [c \in Clients |-> NoGenerator]
    /\ files = <<>>

single == <<mode, video, pc, outcome, fault, fps, frame_idx, smoothing_buffer,
            tracking_rows, csv, csv_before, requests, chunks, written, events,
            drawn, detector_calls, seen, enc_failed, det_budget>>

\* POST /track: stream_id = uuid.uuid4().hex, an id no upload had before
track ==
    /\ mode = "service"
    /\ Cardinality(DOMAIN STREAMS) < MaxUploads
    /\ \E ts \in Stamps :
        LET stream_id == Cardinality(DOMAIN STREAMS) + 1
        IN  STREAMS' = (stream_id :> [csv_path |-> CsvPath(ts, stream_id)]) @@ STREAMS
    /\ UNCHANGED <<single, sessions, files>>

\* GET /stream/<stream_id>: a new generator on the registered paths
stream ==
    /\ mode = "service"
    /\ \E c \in Clients, stream_id \in DOMAIN STREAMS :
        /\ sessions[c].pc = "None"
        /\ sessions' = [sessions EXCEPT ![c] =
                [NoGenerator EXCEPT !.stream_id = stream_id,
                                    !.csv_path = STREAMS[stream_id].csv_path,
                                    !.pc = "Opening"]]
    /\ UNCHANGED <<single, STREAMS, files>>

\* the locals of generator i that the boxes loop reads, with the smoothing
\* buffer of the first client read by all, as a dict of the module would be
LocalsWithSharedBuffer(i) ==
    [smoothing_buffer |-> sessions["c1"].smoothing_buffer,
     tracking_rows |-> sessions[i].tracking_rows, overlays |-> <<>>]

\* the locals of generator i that the boxes loop reads
Locals(i) ==
    [smoothing_buffer |-> sessions[i].smoothing_buffer,
     tracking_rows |-> sessions[i].tracking_rows, overlays |-> <<>>]

\* generator i up to its frame loop: VideoCapture, fps, the locals
GeneratorStart(i) ==
    /\ sessions[i].pc = "Opening"
    /\ \E opened \in BOOLEAN, f \in Fps :
        sessions' = [sessions EXCEPT ![i] =
            IF opened THEN [@ EXCEPT !.pc = "Running", !.fps = f]
            ELSE [@ EXCEPT !.pc = "Ended"]]
    /\ UNCHANGED <<single, STREAMS, files>>

\* one iteration of generator i: the boxes loop and the periodic CSV write
GeneratorFrame(i) ==
    /\ sessions[i].pc = "Running"
    /\ sessions[i].frame_idx < ServiceFrames
    /\ \E boxes \in ServiceTrack :
        LET idx == sessions[i].frame_idx + 1
            st == ProcessBoxes(Locals(i), boxes, idx, <<idx, sessions[i].fps>>)
        IN  /\ sessions' = [sessions EXCEPT ![i] =
                    [@ EXCEPT !.frame_idx = idx,
                              !.smoothing_buffer = st.smoothing_buffer,
                              !.tracking_rows = st.tracking_rows,
                              !.answers = Append(@, boxes)]]
            /\ files' = IF PeriodicDue(idx, st.tracking_rows)
                         THEN (sessions[i].csv_path :> st.tracking_rows) @@ files
                         ELSE files
    /\ UNCHANGED <<single, STREAMS>>

\* the end of generator i, by the end of its video or by its consumer's
\* close(): the finally block with the final CSV write
GeneratorEnd(i) ==
    /\ sessions[i].pc = "Running"
    /\ \E f \in FinalCsv(sessions[i].tracking_rows, Held(sessions[i].csv_path)) :
        files' = IF sessions[i].tracking_rows = <<>> THEN files
                 ELSE (sessions[i].csv_path :> f.csv) @@ files
    /\ sessions' = [sessions EXCEPT ![i].pc = "Ended"]
    /\ UNCHANGED <<single, STREAMS>>

GeneratorOpen == \E i \in Clients : GeneratorStart(i)

GeneratorNext == \E i \in Clients : GeneratorFrame(i)

GeneratorExit == \E i \in Clients : GeneratorEnd(i)

ServiceNext == track \/ stream \/ GeneratorOpen \/ GeneratorNext \/ GeneratorExit

ServiceSpec == ServiceInit /\ [][ServiceNext]_vars

(***************************************************************************)
(* The claims.                                                             *)
(***************************************************************************)
Count(s, e) == Cardinality({i \in DOMAIN s : s[i] = e})

\* the frame source was acquired: the session got to its frame loop
Opened == "cap.open" \in Range(events)

\* the session has ended by the end of the video, nothing having failed
NormalEnd == pc = "Ended" /\ fault = "none" /\ outcome \in {"returned", "exit0"}

\* the final flush was performed: the destination holds every accumulated
\* row, or the write itself was tried and failed
FinalFlushDone ==
    \/ "to_csv" \in Range(events) /\ csv = tracking_rows
    \/ "to_csv.failed" \in Range(events)

\* C1: in both modes, when an exception raised in the frame loop (frame read,
\* detector call, annotation, video-writer write) ends the session, the log
\* destination has been overwritten with all the rows accumulated so far.
C1_ExceptionStillFlushes ==
    (pc = "Ended" /\ fault \in {"read", "track", "annotate", "write"}
        /\ tracking_rows # <<>>)
    => FinalFlushDone

\* C2: when a session ends by the normal end of the video, the log
\* destination holds exactly the rows the session accumulated, whatever
\* their number, zero included, and whatever it held before.
C2_NormalEndLogIsAllRows == NormalEnd => csv = tracking_rows

\* the last frame index at which a periodic flush was due
Checkpoint == CSV_EVERY_N_FRAMES * (frame_idx \div CSV_EVERY_N_FRAMES)

\* the accumulated rows of the frames up to the checkpoint
RowsAtCheckpoint == SelectSeq(tracking_rows, LAMBDA r : r.Frame <= Checkpoint)

C4_CancelFlushesAndReleases ==
    (pc = "Ended" /\ fault = "cancel" /\ Opened)
    => /\ tracking_rows # <<>> => FinalFlushDone
       /\ "cap.release" \in Range(events)
       /\ "writer.open" \in Range(events) => "writer.release" \in Range(events)

\* C5: a session that has ended performed its final flush before it
\* released the frame source and the writer, and released each exactly once.
C5_FlushThenReleaseOnce ==
    (pc = "Ended" /\ Opened)
    => /\ Count(events, "cap.release") = 1
       /\ Count(events, "writer.release") = Count(events, "writer.open")
       /\ \A i, j \in DOMAIN events :
            (events[i] \in {"to_csv", "to_csv.failed"}
                /\ events[j] \in {"cap.release", "writer.release"})
            => i < j

\* C6: a periodic flush that fails does not end the session.
C6_PeriodicFailureGoesOn == ~(pc = "Ended" /\ fault = "to_csv")

\* the frames of a sequence of chunks, and the keys of rows and detections
Frames(s) == [i \in 1..Len(s) |-> s[i].frame]
RowKeys(rows) == [i \in 1..Len(rows) |-> [frame |-> rows[i].Frame, id |-> rows[i].Track_ID]]
SeenKeys(dets) == [i \in 1..Len(dets) |-> [frame |-> dets[i].frame, id |-> dets[i].id]]
RowBox(r) == <<r.X1, r.Y1, r.X2, r.Y2>>

\* the frames whose iteration got to imencode
Encoded == IF fault \in {"track", "annotate", "to_csv"} THEN frame_idx - 1 ELSE frame_idx

\* the chunks are the frames imencode accepted, in order
C7_OnlyRefusedFramesAbsent ==
    mode = "stream"
    => Frames(chunks) = SelectSeq([i \in 1..Encoded |-> i], LAMBDA f : f \notin enc_failed)

\* the step in which imencode refuses a frame: no chunk, the loop goes on,
\* the frame's rows are accumulated and a periodic flush due then holds them
C7_RefusalStep ==
    enc_failed' # enc_failed
    => /\ chunks' = chunks
       /\ pc' = "Running" /\ fault' = "none" /\ outcome' = "none"
       /\ frame_idx' = frame_idx + 1 /\ enc_failed' = enc_failed \cup {frame_idx'}
       /\ RowKeys(tracking_rows') = SeenKeys(seen')
       /\ PeriodicDue(frame_idx', tracking_rows') => csv' = tracking_rows'

\* C7: in streaming mode a frame that imencode refuses is the only thing
\* missing from the chunks; the session is not aborted and goes on with the
\* next frame, and the rows of that frame stay in the accumulated log.
C7_EncodeFailureSkipsOneFrame ==
    [](C7_OnlyRefusedFramesAbsent) /\ [][C7_RefusalStep]_vars

\* a session that ended normally after frame 1 was refused: frames 2 and 3
\* were emitted and the log holds a row of frame 1
C7_Witness ==
    /\ NormalEnd /\ mode = "stream"
    /\ enc_failed = {1} /\ Frames(chunks) = <<2, 3>>
    /\ tracking_rows # <<>> /\ tracking_rows[1].Frame = 1
    /\ csv = tracking_rows

\* C8: a session whose frame source cannot be opened reports the failure
\* to its caller; it has accumulated no row, emitted no frame, never called
\* the detector and not written the log destination.
C8_OpenFailureReported ==
    fault = "open"
    => /\ outcome \notin {"returned", "exit0"}
       /\ tracking_rows = <<>> /\ chunks = <<>> /\ written = <<>>
       /\ detector_calls = 0
       /\ csv = csv_before /\ events = <<>>

\* the detections whose loop body ran to its end
Logged == IF fault = "annotate" THEN SubSeq(seen, 1, Len(seen) - 1) ELSE seen

\* C9: the accumulated rows are, one for one and in order, the detections
\* with a track id of the processed frames; a detection without one adds no
\* row, draws no overlay and leaves the smoothing buffer as it is.
C9_OneRowPerTrackedDetection ==
    /\ RowKeys(tracking_rows) = SeenKeys(Logged)
    /\ drawn = Len(tracking_rows)
    /\ DOMAIN smoothing_buffer = {seen[i].id : i \in DOMAIN seen}
    /\ fault # "annotate"
       => \A i \in DOMAIN tracking_rows :
            (\A j \in DOMAIN tracking_rows :
                j > i => tracking_rows[j].Track_ID # tracking_rows[i].Track_ID)
            => smoothing_buffer[tracking_rows[i].Track_ID] = RowBox(tracking_rows[i])

\* a running session that was given a detection without a track id and
\* one with a track id
C9_Witness ==
    /\ pc \in {"Running", "Suspended"}
    /\ MaxDets - det_budget > Len(seen)
    /\ Len(tracking_rows) = 1 /\ Len(seen) = 1

Between(a, x, b) == (a <= x /\ x <= b) \/ (b <= x /\ x <= a)

\* C10: the first box logged for a track id is the raw box; every later
\* coordinate lies between the previous smoothed one and the new raw one.
C10_NeverOvershoots ==
    \A i \in DOMAIN tracking_rows :
        LET before == {j \in 1..(i - 1) :
                          tracking_rows[j].Track_ID = tracking_rows[i].Track_ID}
        IN  IF before = {} THEN RowBox(tracking_rows[i]) = seen[i].xyxy
            ELSE LET j == CHOOSE k \in before : \A l \in before : l <= k
                 IN  \A c \in 1..4 :
                        Between(RowBox(tracking_rows[j])[c],
                                RowBox(tracking_rows[i])[c], seen[i].xyxy[c])

\* n / 10 truncated toward zero
Trunc10(n) == IF n >= 0 THEN n \div 10 ELSE -((-n) \div 10)

\* smooth(100, 200), computed once
smooth_100_200 == smooth(100, 200)

\* the row logged before row i for the same track id, 0 if there is none
PrevRow(i) ==
    LET before == {j \in 1..(i - 1) :
                      tracking_rows[j].Track_ID = tracking_rows[i].Track_ID}
    IN  IF before = {} THEN 0 ELSE CHOOSE k \in before : \A l \in before : l <= k

\* C11: for a track already seen every coordinate logged is
\* (3 * incoming + 7 * previous smoothed) / 10 truncated toward zero, and
\* smooth(100, 200) = 130.
C11_SmoothIsTruncatedAverage ==
    /\ smooth_100_200 = 130
    /\ \A i \in DOMAIN tracking_rows :
        PrevRow(i) # 0
        => \A c \in 1..4 :
            RowBox(tracking_rows[i])[c]
                = Trunc10(3 * seen[i].xyxy[c] + 7 * RowBox(tracking_rows[PrevRow(i)])[c])

\* the detector has reported the same single box on every frame so far
ConstantStream ==
    /\ Len(seen) = frame_idx
    /\ \A i \in DOMAIN seen : seen[i].frame = i /\ seen[i].xyxy = seen[1].xyxy

\* C12: smoothing a constant stream of identical boxes of one track returns
\* that box on every step; after N frames that each carry the same single
\* tracked adult box the log has N rows, of frames 1..N in order, each with
\* the unchanged box and the time frame index / fps.
C12_ConstantStreamUnchanged ==
    (ConstantStream /\ fault = "none")
    => /\ Len(tracking_rows) = frame_idx
       /\ \A i \in DOMAIN tracking_rows :
            /\ tracking_rows[i].Frame = i
            /\ RowBox(tracking_rows[i]) = seen[1].xyxy
            /\ tracking_rows[i].Time = <<i, fps>>
            /\ tracking_rows[i].Class = "Adult"

\* the coordinate the object of the steady video is held at, and the
\* smoothed coordinate logged on frame i
HeldAt == seen[2].xyxy[1]
Smoothed(i) == tracking_rows[i].X1

\* C20: with the raw coordinate held at v >= 0 the smoothed coordinate moves
\* monotonically toward v and becomes stable within finitely many frames, at
\* a value from v - 3 to v; started above v it never passes below v and is
\* stable only at v.
C20_TruncationBias ==
    (fault = "none" /\ Len(tracking_rows) >= 2)
    => /\ \A i \in 2..Len(tracking_rows) :
            /\ Between(Smoothed(i - 1), Smoothed(i), HeldAt)
            /\ Smoothed(i) = Smoothed(i - 1)
               => /\ HeldAt - 3 <= Smoothed(i) /\ Smoothed(i) <= HeldAt
                  /\ Smoothed(1) > HeldAt => Smoothed(i) = HeldAt
            /\ Smoothed(1) > HeldAt => Smoothed(i) >= HeldAt
       /\ Len(tracking_rows) = SteadyFrames
          => Smoothed(SteadyFrames) = Smoothed(SteadyFrames - 1)

\* a step in which a flush was performed and returned: the periodic write
\* of an iteration that reached its end, or the final write
FlushStep ==
    \/ Count(events', "to_csv") > Count(events, "to_csv")
    \/ /\ frame_idx' # frame_idx /\ fault' = "none"
       /\ PeriodicDue(frame_idx', tracking_rows')

\* the destination holds the accumulated rows, written by an earlier flush
FlushedBefore == tracking_rows # <<>> /\ csv = tracking_rows

\* C13: a flush that follows a flush with no row appended in between leaves
\* the log destination as the first one left it.
C13_FlushIdempotent ==
    [][(FlushedBefore /\ FlushStep /\ tracking_rows' = tracking_rows) => csv' = csv]_vars

\* a session that ended normally after frame 200 with all its rows from
\* before frame 100: flushed at 100, at 200 and at the end
C13_Witness ==
    /\ NormalEnd /\ frame_idx >= 2 * CSV_EVERY_N_FRAMES
    /\ tracking_rows # <<>>
    /\ tracking_rows[Len(tracking_rows)].Frame < CSV_EVERY_N_FRAMES
    /\ "to_csv" \in Range(events)
    /\ csv = tracking_rows

\* C14 as stated: nothing is read before the first request, every request
\* makes the session process exactly one frame before it suspends again,
\* and the frames processed never exceed the chunks requested.
C14_OneFramePerRequest ==
    mode = "stream"
    => /\ requests = 0 => (frame_idx = 0 /\ detector_calls = 0 /\ ~Opened)
       /\ frame_idx <= requests
       /\ pc = "Suspended" => frame_idx = requests

\* C14: in streaming mode nothing is read before the consumer's first
\* request; a request makes the session process frames, one detector call
\* each, until one is yielded: one frame and every frame imencode refused;
\* the frames processed never exceed the requests plus the refused frames.
C14_PullDriven ==
    mode = "stream"
    => /\ requests = 0 => (frame_idx = 0 /\ detector_calls = 0 /\ ~Opened)
       /\ detector_calls = frame_idx
       /\ frame_idx <= requests + Cardinality(enc_failed)
       /\ pc = "Suspended"
          => /\ frame_idx = requests + Cardinality(enc_failed)
             /\ Len(chunks) = requests

\* a session suspended after its first request, which processed two frames
\* because imencode refused the first
C14_Witness ==
    /\ mode = "stream" /\ pc = "Suspended"
    /\ requests = 1 /\ frame_idx = 2 /\ enc_failed = {1}
    /\ Frames(chunks) = <<2>>

\* strictly increasing frames of a sink, all of them processed
InOrder(sink) ==
    /\ \A i \in DOMAIN sink : 1 <= sink[i].frame /\ sink[i].frame <= frame_idx
    /\ \A i, j \in DOMAIN sink : i < j => sink[i].frame < sink[j].frame

C17_FramesInOrder ==
    /\ pc = "Opening" => frame_idx = 0
    /\ \A i \in DOMAIN tracking_rows :
        1 <= tracking_rows[i].Frame /\ tracking_rows[i].Frame <= frame_idx
    /\ \A i, j \in DOMAIN tracking_rows :
        i < j => tracking_rows[i].Frame <= tracking_rows[j].Frame
    /\ InOrder(chunks)
    /\ InOrder(written)

\* frame_idx moves by one, with the frame that is read and given to the
\* detector, and not otherwise
C17_FrameStep ==
    /\ frame_idx' \in {frame_idx, frame_idx + 1}
    /\ frame_idx' = frame_idx + 1 <=> detector_calls' = detector_calls + 1
    /\ detector_calls' \in {detector_calls, detector_calls + 1}

\* C17: frame_idx starts at 0 and grows by exactly 1 with each frame read;
\* every row has a frame index from 1 to frame_idx, the rows' frame indices
\* never decrease, and each sink gets its frames in increasing order, each
\* at most once.
C17_StrictFrameOrder == [](C17_FramesInOrder) /\ [][C17_FrameStep]_vars

\* three frames emitted in order, with rows of frames 1 and 3
C17_Witness ==
    /\ Frames(chunks) = <<1, 2, 3>>
    /\ Len(tracking_rows) = 2
    /\ tracking_rows[1].Frame = 1 /\ tracking_rows[2].Frame = 3

\* the number of entries of a sequence of keys equal to k
Times(keys, k) == Cardinality({i \in DOMAIN keys : keys[i] = k})

\* the stored box of every track is the box of the last row logged for it,
\* and every detection with a track id has its own row, also when several
\* of one frame carry the same id
C18_BufferIsLastRow ==
    fault # "annotate"
    => /\ \A id \in DOMAIN smoothing_buffer :
            \E i \in DOMAIN tracking_rows :
                /\ tracking_rows[i].Track_ID = id
                /\ \A j \in DOMAIN tracking_rows :
                    tracking_rows[j].Track_ID = id => j <= i
                /\ smoothing_buffer[id] = RowBox(tracking_rows[i])
       /\ \A k \in Range(SeenKeys(seen)) :
            Times(RowKeys(tracking_rows), k) = Times(SeenKeys(seen), k)

\* no entry of the smoothing buffer is ever removed
C18_BufferKeeps == DOMAIN smoothing_buffer \subseteq DOMAIN smoothing_buffer'

\* C18: after each detection with a track id the stored box of that id is
\* the box of the row appended last for it; entries are never removed; two
\* detections of one frame with the same id both get a row and the stored
\* box is that of the later one.
C18_LastWriteWins == [](C18_BufferIsLastRow) /\ [][C18_BufferKeeps]_vars

\* a frame that carried track 1 twice, with different boxes: two rows, the
\* stored box is the second one's
C18_Witness ==
    /\ fault = "none" /\ Len(tracking_rows) = 2
    /\ tracking_rows[1].Frame = tracking_rows[2].Frame
    /\ tracking_rows[1].Track_ID = tracking_rows[2].Track_ID
    /\ RowBox(tracking_rows[1]) # RowBox(tracking_rows[2])
    /\ smoothing_buffer[tracking_rows[2].Track_ID] = RowBox(tracking_rows[2])

\* the frames that reached a sink, with their overlays
Rendered == Range(chunks) \cup Range(written)

\* the row (and detection) of the k-th overlay drawn on frame f
RowOf(f, k) ==
    (CHOOSE i \in DOMAIN tracking_rows :
        /\ tracking_rows[i].Frame = f
        /\ \A j \in 1..(i - 1) : tracking_rows[j].Frame # f) + k - 1

\* the named colors
NamedColors == {ADULT_GREEN, CALF_BLUE}

\* C19: class id 0 gives label Adult, behavior surfacing and the Adult
\* color; class id 1 gives Calf, nursing and the Calf color; any other class
\* id still gives a row and an overlay, labelled with its number, and gets
\* neither of the two named colors.
C19_ClassMapping ==
    /\ \A i \in DOMAIN tracking_rows :
        LET r == tracking_rows[i]
            c == seen[i].cls
        IN  /\ c = 0 => r.Class = "Adult" /\ r.Behavior = "surfacing"
            /\ c = 1 => r.Class = "Calf" /\ r.Behavior = "nursing"
            /\ c \notin {0, 1} => r.Class = ToString(c)
    /\ \A e \in Rendered : \A k \in DOMAIN e.overlays :
        LET o == e.overlays[k]
            d == seen[RowOf(e.frame, k)]
        IN  /\ d.cls = 0 => o.box_color = ADULT_GREEN
            /\ d.cls = 1 => o.box_color = CALF_BLUE
            /\ d.cls \notin {0, 1}
               => /\ o.box_color \notin NamedColors
                  /\ o.label_text = ToString(d.cls) \o " ID:" \o ToString(d.id)

\* the locals of a generator that runs alone on the answers the detector
\* gave: st after the frames before idx
RECURSIVE SoloFrom(_, _, _, _)
SoloFrom(st, answers, idx, f) ==
    IF answers = <<>> THEN st
    ELSE SoloFrom(ProcessBoxes([st EXCEPT !.overlays = <<>>], Head(answers), idx, <<idx, f>>),
                  Tail(answers), idx + 1, f)

Solo(answers, f) ==
    SoloFrom([smoothing_buffer |-> <<>>, tracking_rows |-> <<>>, overlays |-> <<>>],
             answers, 1, f)

\* a generator between its opening and its end
Alive(c) == sessions[c].pc = "Running"

C15_SessionIsSolo ==
    \A c \in Clients :
        LET alone == Solo(sessions[c].answers, sessions[c].fps)
        IN  /\ sessions[c].frame_idx = Len(sessions[c].answers)
            /\ sessions[c].smoothing_buffer = alone.smoothing_buffer
            /\ sessions[c].tracking_rows = alone.tracking_rows

C15_OthersUntouched ==
    \A c \in Clients :
        sessions'[c] # sessions[c]
        => \A d \in Clients \ {c} : sessions'[d] = sessions[d]

\* C15: with the frame steps of two sessions interleaved in any order, each
\* session's frame index, smoothing buffer and accumulated rows are those of
\* that session run alone on the detections it was given, and a step of one
\* session changes nothing of the other.
C15_SessionsIsolated == [](C15_SessionIsSolo) /\ [][C15_OthersUntouched]_vars

\* both sessions alive after two frames each, having smoothed the same track
\* id on different boxes
C15_Witness ==
    /\ \A c \in Clients : Alive(c) /\ sessions[c].frame_idx = 2
    /\ sessions["c1"].answers = <<(<<AdultBox>>), <<AdultBox>>>>
    /\ sessions["c2"].answers = <<(<<CalfBox>>), <<CalfBox>>>>
    /\ sessions["c1"].smoothing_buffer[1] # sessions["c2"].smoothing_buffer[1]

\* C16: whatever the uploads and stream starts, no two sessions alive at
\* the same time write to the same log destination path.
C16_DistinctLogPaths ==
    \A c, d \in Clients :
        (c # d /\ Alive(c) /\ Alive(d)) => sessions[c].csv_path # sessions[d].csv_path


====
